---- MODULE Spec2Model ----
\* SingleLinkedList<Type> of single-linked-list.h as a state machine over an
\* explicit heap: list objects (sentinel head_ and size_), Node cells with
\* value and next_node, and the set of cells currently allocated by new.
EXTENDS Integers, Sequences, FiniteSets, TLC

\* ---------------------------------------------------------------- bounds
\* number of Node cells the allocator can hand out
MaxNodes == 3

\* ---------------------------------------------------------------- memory
\* nullptr
NULL == 0
\* content of a Type object that was never initialised or was destroyed
Indet == 0

\* the element type: three distinguishable values
Values == {1, 2, 3}
Nodes == 1 .. MaxNodes
\* the list objects the caller works with
ListIds == {1, 2}
\* the local current_list of the copy constructor / initializer-list constructor
Tmp1 == 3
\* the local current_list of operator=
Tmp2 == 4
AllLists == ListIds \cup {Tmp1, Tmp2}
\* values an uninitialised size_ may hold
Garbage == {0, 1, 5}

\* address of the member head_ of list object l
Sentinel(l) == 0 - l
\* addresses of the members head_ of all list objects
Sentinels == {Sentinel(l) : l \in AllLists}
Addr == Sentinels \cup Nodes

VARIABLES
    next,    \* next_node of every cell (sentinels and Node cells)
    value,   \* value of every Node cell
    size,    \* size_ of every list object
    alloc,   \* Node cells obtained from new and not yet deleted
    live,    \* list objects constructed and not yet destroyed
    dfree,   \* TRUE once delete was applied to a cell that was not allocated
    last     \* the call that produced the current state, with its arguments and result

vars == <<next, value, size, alloc, live, dfree, last>>

\* the program state as one record, the form the operations below work on
Cur ==
    [next |-> next, value |-> value, size |-> size, alloc |-> alloc, live |-> live,
     dfree |-> dfree]

\* ---------------------------------------------------------------- Node
\* new Node(val, nxt) placed at cell a
NewNode(s, a, val, nxt) ==
    [s EXCEPT !.alloc = @ \cup {a}, !.value[a] = val, !.next[a] = nxt]

\* delete of the Node at cell n
DeleteNode(s, n) ==
    [s EXCEPT !.alloc = @ \ {n}, !.value[n] = Indet, !.next[n] = NULL,
              !.dfree = @ \/ n \notin s.alloc]

\* ---------------------------------------------------------------- iterators
begin(s, l) == s.next[Sentinel(l)]

end == NULL

before_begin(l) == Sentinel(l)

\* operator++ on an iterator at cell p
Incr(s, p) == s.next[p]

\* operator* on an iterator at cell p
Deref(s, p) == s.value[p]

\* the cells visited by it = p; while (it != end()) ++it, cut after k steps
RECURSIVE Walk(_, _, _)
Walk(s, p, k) ==
    IF p = end \/ k = 0 THEN <<>> ELSE <<p>> \o Walk(s, Incr(s, p), k - 1)

\* the cells of a traversal from begin() to end()
NodeSeq(s, l) == Walk(s, begin(s, l), MaxNodes + 1)

\* the values of a traversal from begin() to end()
Elems(s, l) ==
    LET ns == NodeSeq(s, l) IN [i \in 1 .. Len(ns) |-> Deref(s, ns[i])]

NodeSet(s, l) == {NodeSeq(s, l)[i] : i \in 1 .. Len(NodeSeq(s, l))}

\* ---------------------------------------------------------------- queries
GetSize(s, l) == s.size[l]

IsEmpty(s, l) == IF s.size[l] # 0 THEN FALSE ELSE TRUE

\* ---------------------------------------------------------------- mutators
\* PushFront that links the new node to nothing
PushFront_DropTail(s, l, v, a) ==
    LET s1 == NewNode(s, a, v, NULL)
    IN [s1 EXCEPT !.next[Sentinel(l)] = a, !.size[l] = @ + 1]

PushFront(s, l, v, a) ==
    LET s1 == NewNode(s, a, v, s.next[Sentinel(l)])
    IN [s1 EXCEPT !.next[Sentinel(l)] = a, !.size[l] = @ + 1]

RECURSIVE ClearLoop(_, _)
ClearLoop(s, l) ==
    IF s.next[Sentinel(l)] # NULL
    THEN LET new_head == s.next[s.next[Sentinel(l)]]
             s1 == DeleteNode(s, s.next[Sentinel(l)])
         IN ClearLoop([s1 EXCEPT !.next[Sentinel(l)] = new_head], l)
    ELSE s

\* Clear that leaves size_ as it was
Clear_KeepSize(s, l) == ClearLoop(s, l)

\* Clear that resets the link and the size without deleting the nodes
Clear_NoDelete(s, l) == [s EXCEPT !.next[Sentinel(l)] = NULL, !.size[l] = 0]

Clear(s, l) == [ClearLoop(s, l) EXCEPT !.size[l] = 0]

\* PopFront that does not decrement size_
PopFront_NoDec(s, l) ==
    IF s.next[Sentinel(l)] # NULL
    THEN LET curr == s.next[Sentinel(l)]
             s1 == [s EXCEPT !.next[Sentinel(l)] = s.next[curr]]
         IN DeleteNode(s1, curr)
    ELSE s

\* PopFront that decrements size_ outside the emptiness test
PopFront_AlwaysDec(s, l) ==
    LET s0 == IF s.next[Sentinel(l)] # NULL
              THEN LET curr == s.next[Sentinel(l)]
                       s1 == [s EXCEPT !.next[Sentinel(l)] = s.next[curr]]
                   IN DeleteNode(s1, curr)
              ELSE s
    IN [s0 EXCEPT !.size[l] = @ - 1]

PopFront(s, l) ==
    IF s.next[Sentinel(l)] # NULL
    THEN LET curr == s.next[Sentinel(l)]
             s1 == [s EXCEPT !.next[Sentinel(l)] = s.next[curr]]
             s2 == DeleteNode(s1, curr)
         IN [s2 EXCEPT !.size[l] = @ - 1]
    ELSE s

\* EraseAfter that deletes the successor without relinking pos
EraseAfter_NoRelink(s, l, pos) ==
    LET curr == s.next[pos]
        s2 == DeleteNode(s, curr)
        s3 == [s2 EXCEPT !.size[l] = @ - 1]
    IN [s |-> s3, ret |-> s.next[curr]]

\* EraseAfter that does not decrement size_
EraseAfter_NoDec(s, l, pos) ==
    LET curr == s.next[pos]
        s1 == [s EXCEPT !.next[pos] = s.next[curr]]
        s2 == DeleteNode(s1, curr)
    IN [s |-> s2, ret |-> s2.next[pos]]

\* EraseAfter that deletes pos's successor only after relinking pos: the wrong node goes
EraseAfter_DeleteAfterRelink(s, l, pos) ==
    LET curr == s.next[pos]
        s1 == [s EXCEPT !.next[pos] = s.next[curr]]
        s2 == IF s1.next[pos] = NULL THEN s1 ELSE DeleteNode(s1, s1.next[pos])
        s3 == [s2 EXCEPT !.size[l] = @ - 1]
    IN [s |-> s3, ret |-> s3.next[pos]]

\* the state after EraseAfter(pos) and the iterator it returns
EraseAfter(s, l, pos) ==
    LET curr == s.next[pos]
        s1 == [s EXCEPT !.next[pos] = s.next[curr]]
        s2 == DeleteNode(s1, curr)
        s3 == [s2 EXCEPT !.size[l] = @ - 1]
    IN [s |-> s3, ret |-> s3.next[pos]]

\* InsertAfter whose new node does not take over the successor of pos
InsertAfter_DropTail(s, l, pos, v, a) ==
    LET s1 == NewNode(s, a, v, NULL)
        s2 == [s1 EXCEPT !.next[pos] = a]
        s3 == [s2 EXCEPT !.size[l] = @ + 1]
    IN [s |-> s3, ret |-> s3.next[pos]]

\* InsertAfter that returns pos instead of the new node
InsertAfter_RetPos(s, l, pos, v, a) ==
    LET s1 == NewNode(s, a, v, s.next[pos])
        s2 == [s1 EXCEPT !.next[pos] = a]
        s3 == [s2 EXCEPT !.size[l] = @ + 1]
    IN [s |-> s3, ret |-> pos]

\* the state after InsertAfter(pos, v), the new Node placed at cell a, and the iterator it returns
InsertAfter(s, l, pos, v, a) ==
    LET s1 == NewNode(s, a, v, s.next[pos])
        s2 == [s1 EXCEPT !.next[pos] = a]
        s3 == [s2 EXCEPT !.size[l] = @ + 1]
    IN [s |-> s3, ret |-> s3.next[pos]]

\* swap that exchanges the links but not the sizes
swap_NoSize(s, l, other) ==
    LET tmp == s.next[Sentinel(other)]
        s1 == [s EXCEPT !.next[Sentinel(other)] = s.next[Sentinel(l)]]
    IN [s1 EXCEPT !.next[Sentinel(l)] = tmp]

\* swap that never stores tmp into this->head_: both lists end on this list's chain
swap_Alias(s, l, other) ==
    LET s1 == [s EXCEPT !.next[Sentinel(other)] = s.next[Sentinel(l)]]
        tmp_size == s1.size[other]
        s3 == [s1 EXCEPT !.size[other] = s1.size[l]]
    IN [s3 EXCEPT !.size[l] = tmp_size]

\* swap that exchanges the sizes only
swap_SizesOnly(s, l, other) ==
    LET tmp_size == s.size[other]
        s3 == [s EXCEPT !.size[other] = s.size[l]]
    IN [s3 EXCEPT !.size[l] = tmp_size]

swap(s, l, other) ==
    LET tmp == s.next[Sentinel(other)]
        s1 == [s EXCEPT !.next[Sentinel(other)] = s.next[Sentinel(l)]]
        s2 == [s1 EXCEPT !.next[Sentinel(l)] = tmp]
        tmp_size == s2.size[other]
        s3 == [s2 EXCEPT !.size[other] = s2.size[l]]
    IN [s3 EXCEPT !.size[l] = tmp_size]

\* the free function swap(lhs, rhs)
swap_free(s, lhs, rhs) == swap(s, lhs, rhs)

\* ---------------------------------------------------------------- copying
\* the while loop of MakeCopy without ++size
RECURSIVE MakeCopyLoop_NoCount(_, _, _, _, _, _)
MakeCopyLoop_NoCount(s, new_node, coll, fresh, i, sz) ==
    IF i <= Len(coll)
    THEN LET s1 == NewNode(s, fresh[i], coll[i], NULL)
             s2 == [s1 EXCEPT !.next[new_node] = fresh[i]]
         IN MakeCopyLoop_NoCount(s2, fresh[i], coll, fresh, i + 1, sz)
    ELSE [s |-> s, size |-> sz]

\* the while loop of MakeCopy: coll[i..] still to copy, new_node the last cell built,
\* fresh[i] the cell new returns for the i-th element; yields the state and the local size
RECURSIVE MakeCopyLoop(_, _, _, _, _, _)
MakeCopyLoop(s, new_node, coll, fresh, i, sz) ==
    IF i <= Len(coll)
    THEN LET s1 == NewNode(s, fresh[i], coll[i], NULL)
             s2 == [s1 EXCEPT !.next[new_node] = fresh[i]]
         IN MakeCopyLoop(s2, fresh[i], coll, fresh, i + 1, sz + 1)
    ELSE [s |-> s, size |-> sz]

\* MakeCopy(res_list, collection), coll the values the iteration over collection yields
MakeCopy(s, res_list, coll, fresh) ==
    IF Len(coll) > 0
    THEN LET s1 == NewNode(s, fresh[1], coll[1], NULL)
             s2 == [s1 EXCEPT !.next[Sentinel(res_list)] = fresh[1]]
             r == MakeCopyLoop(s2, fresh[1], coll, fresh, 2, 1)
         IN [r.s EXCEPT !.size[res_list] = r.size]
    ELSE s

\* MakeCopy left by an exception of its k-th new Node (k <= Len(coll)): the k-1
\* nodes built so far hang on res_list, whose size_ was not assigned yet
MakeCopyThrow(s, res_list, coll, fresh, k) ==
    IF k = 1
    THEN s
    ELSE LET s1 == NewNode(s, fresh[1], coll[1], NULL)
             s2 == [s1 EXCEPT !.next[Sentinel(res_list)] = fresh[1]]
             r == MakeCopyLoop(s2, fresh[1], SubSeq(coll, 1, k - 1), fresh, 2, 1)
         IN r.s

\* ---------------------------------------------------------------- lifetime
\* SingleLinkedList(): head_ is default-initialised (next_node = nullptr), size_ = 0
DefaultConstructor(s, l) ==
    [s EXCEPT !.live = @ \cup {l}, !.next[Sentinel(l)] = NULL, !.size[l] = 0]

\* destructor that releases the object without Clear
Destructor_NoClear(s, l) ==
    [s EXCEPT !.live = @ \ {l}, !.next[Sentinel(l)] = NULL, !.size[l] = 0]

\* ~SingleLinkedList()
Destructor(s, l) ==
    [Clear(s, l) EXCEPT !.live = @ \ {l}]

\* member initialisation of a constructor that sets no member: head_.next_node = nullptr,
\* size_ keeps whatever value g the storage held
RawObject(s, l, g) ==
    [s EXCEPT !.live = @ \cup {l}, !.next[Sentinel(l)] = NULL, !.size[l] = g]

\* the storage of an object whose constructor was left by an exception: the members
\* go away, ~SingleLinkedList does not run
Abandon(s, l) ==
    [s EXCEPT !.live = @ \ {l}, !.next[Sentinel(l)] = NULL, !.size[l] = 0]

\* operator= that clears this list and then copies rhs into it
OperatorAssign_ClearFirst(s, l, rhs, fresh, t) ==
    LET s1 == Clear(s, l)
    IN MakeCopy(s1, l, Elems(s1, rhs), fresh)

\* operator= that takes over the link and the size of rhs instead of copying its nodes
OperatorAssign_Shallow(s, l, rhs, fresh, t) ==
    IF l # rhs
    THEN [ClearLoop(s, l) EXCEPT !.next[Sentinel(l)] = s.next[Sentinel(rhs)],
                                 !.size[l] = s.size[rhs]]
    ELSE s

\* operator=(rhs) on list l; t is the local current_list
OperatorAssign(s, l, rhs, fresh, t) ==
    IF l # rhs
    THEN LET s1 == DefaultConstructor(s, t)
             s2 == MakeCopy(s1, t, Elems(s1, rhs), fresh)
             s3 == swap(s2, l, t)
         IN Destructor(s3, t)
    ELSE s

\* operator= writing into this list without a temporary, left by an exception of rhs's k-th new Node
OperatorAssignThrow_InPlace(s, l, rhs, fresh, t, k) ==
    LET s1 == Clear(s, l)
    IN MakeCopyThrow(s1, l, Elems(s, rhs), fresh, k)

\* operator=(rhs) on list l, l # rhs, left by an exception of the k-th new Node of
\* MakeCopy: the local current_list is destroyed, swap is not reached
OperatorAssignThrow(s, l, rhs, fresh, t, k) ==
    LET s1 == DefaultConstructor(s, t)
        s2 == MakeCopyThrow(s1, t, Elems(s1, rhs), fresh, k)
    IN Destructor(s2, t)

\* the copy constructor up to its closing brace, current_list still alive
CopyConstructorBody(s, l, other, g, fresh) ==
    LET s0 == RawObject(s, l, g)
        s1 == DefaultConstructor(s0, Tmp1)
        s2 == OperatorAssign(s1, Tmp1, other, fresh, Tmp2)
    IN swap(s2, l, Tmp1)

\* SingleLinkedList(const SingleLinkedList& other)
CopyConstructor(s, l, other, g, fresh) ==
    Destructor(CopyConstructorBody(s, l, other, g, fresh), Tmp1)

\* the copy constructor left by an exception of the k-th new Node
CopyConstructorThrow(s, l, other, g, fresh, k) ==
    LET s0 == RawObject(s, l, g)
        s1 == DefaultConstructor(s0, Tmp1)
        s2 == OperatorAssignThrow(s1, Tmp1, other, fresh, Tmp2, k)
        s3 == Destructor(s2, Tmp1)
    IN Abandon(s3, l)

\* the initializer-list constructor up to its closing brace, current_list still alive
InitListConstructorBody(s, l, vals, g, fresh) ==
    LET s0 == RawObject(s, l, g)
        s1 == DefaultConstructor(s0, Tmp1)
        s2 == MakeCopy(s1, Tmp1, vals, fresh)
    IN swap(s2, l, Tmp1)

\* SingleLinkedList(std::initializer_list<Type> values)
InitListConstructor(s, l, vals, g, fresh) ==
    Destructor(InitListConstructorBody(s, l, vals, g, fresh), Tmp1)

\* the initializer-list constructor left by an exception of the k-th new Node
InitListConstructorThrow(s, l, vals, g, fresh, k) ==
    LET s0 == RawObject(s, l, g)
        s1 == DefaultConstructor(s0, Tmp1)
        s2 == MakeCopyThrow(s1, Tmp1, vals, fresh, k)
        s3 == Destructor(s2, Tmp1)
    IN Abandon(s3, l)

\* PushFront left by an exception of new Node: nothing was assigned yet
PushFrontThrow(s, l, v) == s

\* InsertAfter left by an exception of new Node: nothing was assigned yet
InsertAfterThrow(s, l, pos, v) == s

\* ---------------------------------------------------------------- comparison
\* std::equal(first1, last1, first2, last2) on forward iterators
RECURSIVE StdEqual(_, _, _)
StdEqual(s, p, q) ==
    IF p = end \/ q = end THEN p = q
    ELSE Deref(s, p) = Deref(s, q) /\ StdEqual(s, Incr(s, p), Incr(s, q))

OperatorEq(s, lhs, rhs) == StdEqual(s, begin(s, lhs), begin(s, rhs))

OperatorNe(s, lhs, rhs) == ~StdEqual(s, begin(s, lhs), begin(s, rhs))

\* std::lexicographical_compare(first1, last1, first2, last2)
RECURSIVE StdLexicographicalCompare(_, _, _)
StdLexicographicalCompare(s, p, q) ==
    IF p # end /\ q # end
    THEN IF Deref(s, p) < Deref(s, q) THEN TRUE
         ELSE IF Deref(s, q) < Deref(s, p) THEN FALSE
         ELSE StdLexicographicalCompare(s, Incr(s, p), Incr(s, q))
    ELSE p = end /\ q # end

OperatorLt(s, lhs, rhs) == StdLexicographicalCompare(s, begin(s, lhs), begin(s, rhs))

OperatorLe(s, lhs, rhs) == OperatorLt(s, lhs, rhs) \/ OperatorEq(s, lhs, rhs)

\* operator> written as the negation of operator<
OperatorGt_NotLt(s, lhs, rhs) == ~OperatorLt(s, lhs, rhs)

OperatorGt(s, lhs, rhs) == ~OperatorLe(s, lhs, rhs)

OperatorGe(s, lhs, rhs) == ~OperatorLt(s, lhs, rhs)

\* ---------------------------------------------------------------- inputs
Free(s) == (DOMAIN s.value \ Sentinels) \ s.alloc

\* the cells n successive calls of new may return: distinct, currently free
FreshSeqs(s, n) ==
    {f \in [1 .. n -> Free(s)] : \A i, j \in 1 .. n : i # j => f[i] # f[j]}

\* initializer lists of at most k values
RECURSIVE SeqsUpTo(_)
SeqsUpTo(k) ==
    IF k = 0 THEN {<<>>}
    ELSE SeqsUpTo(k - 1) \cup
         {Append(q, v) : q \in {x \in SeqsUpTo(k - 1) : Len(x) = k - 1}, v \in Values}

\* positions InsertAfter accepts: the sentinel or a real node of this list
InsertPositions(s, l) == {Sentinel(l)} \cup NodeSet(s, l)

\* positions EraseAfter accepts: those with a successor
ErasePositions(s, l) == {p \in InsertPositions(s, l) : s.next[p] # NULL}

NoCall == [op |-> "none", l |-> 0, o |-> 0, pos |-> 0, v |-> 0, ret |-> 0, exc |-> 0]

\* a call that returned
Call(op, l, o, pos, v, ret) ==
    [op |-> op, l |-> l, o |-> o, pos |-> pos, v |-> v, ret |-> ret, exc |-> 0]

\* a call left by an exception of its k-th new Node; pre is the state the call began in
Throw(op, l, o, k) ==
    [op |-> op, l |-> l, o |-> o, pos |-> 0, v |-> 0, ret |-> 0, exc |-> k, pre |-> Cur]

Install(s) ==
    /\ next' = s.next
    /\ value' = s.value
    /\ size' = s.size
    /\ alloc' = s.alloc
    /\ live' = s.live
    /\ dfree' = s.dfree

\* ---------------------------------------------------------------- actions
Init ==
    /\ next = [p \in Addr |-> NULL]
    /\ value = [p \in Addr |-> Indet]
    /\ size = [l \in AllLists |-> 0]
    /\ alloc = {}
    /\ live = {}
    /\ dfree = FALSE
    /\ last = NoCall

CallDefaultConstructor ==
    \E l \in ListIds \ live :
        /\ Install(DefaultConstructor(Cur, l))
        /\ last' = Call("SingleLinkedList", l, 0, 0, 0, 0)

CallCopyConstructor ==
    \E l \in ListIds \ live, other \in live, g \in Garbage :
        \E fresh \in FreshSeqs(Cur, Len(NodeSeq(Cur, other))) :
            /\ Install(CopyConstructor(Cur, l, other, g, fresh))
            /\ last' = Call("CopyConstructor", l, other, 0, 0, 0)

CallInitListConstructor ==
    \E l \in ListIds \ live, g \in Garbage, vals \in SeqsUpTo(Cardinality(Free(Cur))) :
        \E fresh \in FreshSeqs(Cur, Len(vals)) :
            /\ Install(InitListConstructor(Cur, l, vals, g, fresh))
            /\ last' = Call("InitListConstructor", l, 0, 0, 0, 0)

CallDestructor ==
    \E l \in live :
        /\ Install(Destructor(Cur, l))
        /\ last' = Call("Destructor", l, 0, 0, 0, 0)

CallOperatorAssign ==
    \E l \in live, rhs \in live :
        \E fresh \in FreshSeqs(Cur, IF l = rhs THEN 0 ELSE Len(NodeSeq(Cur, rhs))) :
            /\ Install(OperatorAssign(Cur, l, rhs, fresh, Tmp2))
            /\ last' = Call("operator=", l, rhs, 0, 0, 0)

CallPushFront ==
    \E l \in live, v \in Values, a \in Free(Cur) :
        /\ Install(PushFront(Cur, l, v, a))
        /\ last' = Call("PushFront", l, 0, Sentinel(l), v, 0)

CallPopFront ==
    \E l \in live :
        /\ Install(PopFront(Cur, l))
        /\ last' = Call("PopFront", l, 0, Sentinel(l), 0, 0)

CallInsertAfter ==
    \E l \in live, v \in Values, a \in Free(Cur) :
        \E pos \in InsertPositions(Cur, l) :
            LET r == InsertAfter(Cur, l, pos, v, a)
            IN /\ Install(r.s)
               /\ last' = Call("InsertAfter", l, 0, pos, v, r.ret)

CallEraseAfter ==
    \E l \in live :
        \E pos \in ErasePositions(Cur, l) :
            LET r == EraseAfter(Cur, l, pos)
            IN /\ Install(r.s)
               /\ last' = Call("EraseAfter", l, 0, pos, 0, r.ret)

CallClear ==
    \E l \in live :
        /\ Install(Clear(Cur, l))
        /\ last' = Call("Clear", l, 0, 0, 0, 0)

CallSwap ==
    \E l \in live, other \in live :
        /\ Install(swap(Cur, l, other))
        /\ last' = Call("swap", l, other, 0, 0, 0)

CallSwapFree ==
    \E lhs \in live, rhs \in live :
        /\ Install(swap_free(Cur, lhs, rhs))
        /\ last' = Call("swap_free", lhs, rhs, 0, 0, 0)

Next ==
    \/ CallDefaultConstructor
    \/ CallCopyConstructor
    \/ CallInitListConstructor
    \/ CallDestructor
    \/ CallOperatorAssign
    \/ CallPushFront
    \/ CallPopFront
    \/ CallInsertAfter
    \/ CallEraseAfter
    \/ CallClear
    \/ CallSwap
    \/ CallSwapFree

Spec == Init /\ [][Next]_vars

\* ---------------------------------------------------------------- calls left by an exception
\* new Node throws (std::bad_alloc, or the copy of Type throws and new releases the cell)
\* the state reached depends neither on the value nor on pos: one of each is tried
CallPushFrontThrow ==
    \E l \in live :
        LET v == CHOOSE x \in Values : TRUE
        IN /\ Install(PushFrontThrow(Cur, l, v))
           /\ last' = Throw("PushFront", l, 0, 1)

CallInsertAfterThrow ==
    \E l \in live :
        LET v == CHOOSE x \in Values : TRUE
            pos == CHOOSE x \in InsertPositions(Cur, l) : Incr(Cur, x) = end
        IN /\ Install(InsertAfterThrow(Cur, l, pos, v))
           /\ last' = Throw("InsertAfter", l, 0, 1)

CallOperatorAssignThrow ==
    \E l \in live, rhs \in live :
        \E k \in 1 .. (IF l = rhs THEN 0 ELSE Len(NodeSeq(Cur, rhs))) :
            \E fresh \in FreshSeqs(Cur, k - 1) :
                /\ Install(OperatorAssignThrow(Cur, l, rhs, fresh, Tmp2, k))
                /\ last' = Throw("operator=", l, rhs, k)

\* size_ of the object under construction is never read before its storage is given up,
\* so one nonzero garbage value stands for all of them
CallCopyConstructorThrow ==
    \E l \in ListIds \ live, other \in live :
        \E k \in 1 .. Len(NodeSeq(Cur, other)) :
            \E fresh \in FreshSeqs(Cur, k - 1) :
                LET g == CHOOSE x \in Garbage : x # 0
                IN /\ Install(CopyConstructorThrow(Cur, l, other, g, fresh, k))
                   /\ last' = Throw("CopyConstructor", l, other, k)

\* built holds the values copied before the throw; the value whose new Node throws is not stored
CallInitListConstructorThrow ==
    \E l \in ListIds \ live :
        \E built \in SeqsUpTo(Cardinality(Free(Cur))) :
            \E fresh \in FreshSeqs(Cur, Len(built)) :
                LET vals == Append(built, CHOOSE x \in Values : TRUE)
                    g == CHOOSE x \in Garbage : x # 0
                IN /\ Install(InitListConstructorThrow(Cur, l, vals, g, fresh, Len(vals)))
                   /\ last' = Throw("InitListConstructor", l, 0, Len(vals))

NextAlloc ==
    \/ Next
    \/ CallPushFrontThrow
    \/ CallInsertAfterThrow
    \/ CallOperatorAssignThrow
    \/ CallCopyConstructorThrow
    \/ CallInitListConstructorThrow

\* the lists with every new Node allowed to throw
SpecAlloc == Init /\ [][NextAlloc]_vars

\* ---------------------------------------------------------------- comparing two lists
\* longest list compared
MaxCmpLen == 3

\* element values of the compared lists
CmpValues == {1, 2, 3, 4}

\* sequences over S of at most k values
RECURSIVE SeqsOver(_, _)
SeqsOver(S, k) ==
    IF k = 0 THEN {<<>>}
    ELSE SeqsOver(S, k - 1) \cup
         {Append(q, v) : q \in {x \in SeqsOver(S, k - 1) : Len(x) = k - 1}, v \in S}

\* no list constructed, 2 * MaxCmpLen cells to allocate from
EmptyHeap ==
    [next |-> [p \in {Sentinel(l) : l \in AllLists} \cup (1 .. 2 * MaxCmpLen) |-> NULL],
     value |-> [p \in {Sentinel(l) : l \in AllLists} \cup (1 .. 2 * MaxCmpLen) |-> Indet],
     size |-> [l \in AllLists |-> 0],
     alloc |-> {},
     live |-> {},
     dfree |-> FALSE]

\* SingleLinkedList<int> A{a...}, B{b...}
TwoLists(a, b) ==
    LET s1 == InitListConstructor(EmptyHeap, 1, a, 0, [i \in 1 .. Len(a) |-> i])
    IN InitListConstructor(s1, 2, b, 0, [i \in 1 .. Len(b) |-> Len(a) + i])

InitCmp ==
    \E a \in SeqsOver(CmpValues, MaxCmpLen), b \in SeqsOver(CmpValues, MaxCmpLen) :
        /\ next = TwoLists(a, b).next
        /\ value = TwoLists(a, b).value
        /\ size = TwoLists(a, b).size
        /\ alloc = TwoLists(a, b).alloc
        /\ live = TwoLists(a, b).live
        /\ dfree = TwoLists(a, b).dfree
        /\ last = NoCall

\* lhs == rhs, !=, <, <=, >, >= evaluated; ret holds the six results in that order
CallCompare ==
    \E lhs \in live, rhs \in live :
        /\ UNCHANGED <<next, value, size, alloc, live, dfree>>
        /\ last' = Call("compare", lhs, rhs, 0, 0,
                         <<OperatorEq(Cur, lhs, rhs), OperatorNe(Cur, lhs, rhs),
                           OperatorLt(Cur, lhs, rhs), OperatorLe(Cur, lhs, rhs),
                           OperatorGt(Cur, lhs, rhs), OperatorGe(Cur, lhs, rhs)>>)

NextCmp == CallCompare

\* two lists built from initializer lists and compared
SpecCmp == InitCmp /\ [][NextCmp]_vars

\* ---------------------------------------------------------------- copies of whole lists
\* no list constructed, room for a list of MaxNodes elements and a copy of it
CopyHeap ==
    [next |-> [p \in {Sentinel(l) : l \in AllLists} \cup (1 .. 2 * MaxNodes) |-> NULL],
     value |-> [p \in {Sentinel(l) : l \in AllLists} \cup (1 .. 2 * MaxNodes) |-> Indet],
     size |-> [l \in AllLists |-> 0],
     alloc |-> {},
     live |-> {},
     dfree |-> FALSE]

\* SingleLinkedList<int> L{a...}
OneList(a) == InitListConstructor(CopyHeap, 1, a, 0, [i \in 1 .. Len(a) |-> i])

InitCopy ==
    \E a \in SeqsUpTo(MaxNodes) :
        /\ next = OneList(a).next
        /\ value = OneList(a).value
        /\ size = OneList(a).size
        /\ alloc = OneList(a).alloc
        /\ live = OneList(a).live
        /\ dfree = OneList(a).dfree
        /\ last = NoCall

\* the calls that copy a list, and the calls on the copy or the original that allocate nothing
NextCopy ==
    \/ CallDefaultConstructor
    \/ CallCopyConstructor
    \/ CallOperatorAssign
    \/ CallDestructor
    \/ CallPopFront
    \/ CallEraseAfter
    \/ CallClear

SpecCopy == InitCopy /\ [][NextCopy]_vars

\* ---------------------------------------------------------------- properties
OneOfEach ==
    /\ live = ListIds
    /\ Len(NodeSeq(Cur, 1)) = 2
    /\ Len(NodeSeq(Cur, 2)) = 1

\* C1: the size_ of every live list equals the number of real nodes reached
\* from its sentinel by following next_node up to the null end marker.
C1_SizeIsNodeCount ==
    \A l \in live : GetSize(Cur, l) = Len(NodeSeq(Cur, l))

C1_Witness ==
    /\ last.op = "swap"
    /\ OneOfEach
    /\ GetSize(Cur, 1) = 2
    /\ GetSize(Cur, 2) = 1

\* the traversal from the sentinel of l meets no cell twice and reaches the end marker
Acyclic(s, l) ==
    LET ns == NodeSeq(s, l)
    IN /\ Len(ns) <= MaxNodes
       /\ \A i, j \in 1 .. Len(ns) : i # j => ns[i] # ns[j]

\* C2: every live list's chain is acyclic, ends at the null end marker and runs
\* over allocated nodes only, and every allocated node is on the chain of
\* exactly one live list.
C2_AcyclicExclusiveOwnership ==
    /\ \A l \in live : Acyclic(Cur, l) /\ NodeSet(Cur, l) \subseteq alloc
    /\ \A n \in alloc : Cardinality({l \in live : n \in NodeSet(Cur, l)}) = 1

C2_Witness ==
    /\ last.op = "operator="
    /\ last.l # last.o
    /\ live = ListIds
    /\ Len(NodeSeq(Cur, 1)) = 1
    /\ Len(NodeSeq(Cur, 2)) = 1
    /\ Cardinality(alloc) = 2

\* PushFront(vs[1]), ..., PushFront(vs[n]) on list l, the i-th new node at fresh[i]
RECURSIVE PushAll(_, _, _, _, _)
PushAll(s, l, vs, fresh, i) ==
    IF i > Len(vs) THEN s
    ELSE PushAll(PushFront(s, l, vs[i], fresh[i]), l, vs, fresh, i + 1)

Reverse(q) == [i \in 1 .. Len(q) |-> q[Len(q) + 1 - i]]

\* C3: from any list with element sequence S, PushFront(v1), ..., PushFront(vn)
\* yields vn, ..., v1 followed by S; on an empty list that is the reverse call
\* order, and for n = 1 it is v followed by S.
C3_PushFrontReverseOrder ==
    \A l \in live :
        \A vs \in SeqsUpTo(Cardinality(Free(Cur))) :
            \A fresh \in FreshSeqs(Cur, Len(vs)) :
                Elems(PushAll(Cur, l, vs, fresh, 1), l) = Reverse(vs) \o Elems(Cur, l)

C3_Witness ==
    /\ last.op = "PushFront"
    /\ Elems(Cur, last.l) = <<3, 2, 1>>
    /\ last.v = 3

\* C4: for every live list, IsEmpty(), GetSize() == 0 and begin() == end()
\* all hold or all fail.
C4_EmptyEquivalence ==
    \A l \in live :
        /\ IsEmpty(Cur, l) <=> (GetSize(Cur, l) = 0)
        /\ (GetSize(Cur, l) = 0) <=> (begin(Cur, l) = end)

C4_Witness ==
    /\ last.op = "Clear"
    /\ live = ListIds
    /\ IsEmpty(Cur, last.l)
    /\ begin(Cur, last.l) = end
    /\ \E o \in live : ~IsEmpty(Cur, o) /\ begin(Cur, o) # end

\* the list objects a call is made on or passes by non-const reference
Targets(c) == IF c.op \in {"swap", "swap_free"} THEN {c.l, c.o} ELSE {c.l}

C6_SwapExchangesContents ==
    [][ last'.op \in {"swap", "swap_free"} =>
            /\ NodeSeq(Cur', last'.l) = NodeSeq(Cur, last'.o)
            /\ NodeSeq(Cur', last'.o) = NodeSeq(Cur, last'.l)
            /\ Elems(Cur', last'.l) = Elems(Cur, last'.o)
            /\ Elems(Cur', last'.o) = Elems(Cur, last'.l)
            /\ GetSize(Cur', last'.l) = GetSize(Cur, last'.o)
            /\ GetSize(Cur', last'.o) = GetSize(Cur, last'.l)
            /\ alloc' = alloc
            /\ \A n \in Nodes : next'[n] = next[n] /\ value'[n] = value[n]
      ]_vars

C6_Witness ==
    /\ last.op = "swap_free"
    /\ last.l = 2
    /\ last.o = 1
    /\ OneOfEach
    /\ Elems(Cur, 1) = <<1, 2>>
    /\ Elems(Cur, 2) = <<3>>

\* an iterator at cell p can be used: p is the sentinel of a live list or an allocated node
ValidIter(s, p) == p \in {Sentinel(l) : l \in s.live} \cup s.alloc

\* the cells an iterator into list l can reference: its sentinel and its real nodes
Positions(s, l) == {before_begin(l)} \cup NodeSet(s, l)

\* C7 as stated: after A.swap(B) with A and B distinct, every iterator into A
\* (before_begin() included) is valid and designates a position of B, and
\* every iterator into B a position of A.
C7_AllIteratorsFollowContents ==
    [][ (last'.op = "swap" /\ last'.l # last'.o) =>
            /\ \A p \in Positions(Cur, last'.l) :
                ValidIter(Cur', p) /\ p \in Positions(Cur', last'.o)
            /\ \A p \in Positions(Cur, last'.o) :
                ValidIter(Cur', p) /\ p \in Positions(Cur', last'.l)
      ]_vars

\* iterators into list a after a swap with a different list b
SwapIterators(a, b) ==
    /\ \A p \in NodeSet(Cur, a) :
        /\ ValidIter(Cur', p)
        /\ p \in NodeSet(Cur', b)
        /\ p \notin NodeSet(Cur', a)
        /\ Deref(Cur', p) = Deref(Cur, p)
        /\ Incr(Cur', p) = Incr(Cur, p)
    /\ ValidIter(Cur', before_begin(a))
    /\ before_begin(a) \in Positions(Cur', a)
    /\ before_begin(a) \notin Positions(Cur', b)
    /\ Incr(Cur', before_begin(a)) = begin(Cur, b)

\* C7 amended: after A.swap(B) with A and B distinct, every iterator stays
\* valid; an iterator to a real element designates the same node, now a
\* position of the other list; an iterator from before_begin() still references
\* the sentinel of the list it was obtained from, whose successor is now the
\* first node the other list had.
C7_ElementIteratorsFollowContents ==
    [][ (last'.op = "swap" /\ last'.l # last'.o) =>
            SwapIterators(last'.l, last'.o) /\ SwapIterators(last'.o, last'.l)
      ]_vars

C7_Witness ==
    /\ last.op = "swap"
    /\ last.l = 1
    /\ last.o = 2
    /\ OneOfEach
    /\ Elems(Cur, 1) = <<2, 3>>
    /\ Elems(Cur, 2) = <<1>>

\* index of position p of list l: 0 for the sentinel, i for the i-th real node
PosIndex(s, l, p) ==
    IF p = before_begin(l) THEN 0
    ELSE CHOOSE i \in 1 .. Len(NodeSeq(s, l)) : NodeSeq(s, l)[i] = p

InsertAt(q, k, x) == SubSeq(q, 1, k) \o <<x>> \o SubSeq(q, k + 1, Len(q))

RemoveAt(q, k) == SubSeq(q, 1, k - 1) \o SubSeq(q, k + 1, Len(q))

\* C8: InsertAfter(pos, v) allocates exactly one node, holding v, links it
\* directly after the node of pos, increases GetSize() by one, keeps the other
\* elements in their order, and returns an iterator to the new node.
C8_InsertAfterPlacesOneNode ==
    [][ last'.op = "InsertAfter" =>
            LET l == last'.l
                k == PosIndex(Cur, l, last'.pos)
            IN /\ last'.ret \notin alloc
               /\ alloc' = alloc \cup {last'.ret}
               /\ Incr(Cur', last'.pos) = last'.ret
               /\ Deref(Cur', last'.ret) = last'.v
               /\ Incr(Cur', last'.ret) = Incr(Cur, last'.pos)
               /\ GetSize(Cur', l) = GetSize(Cur, l) + 1
               /\ NodeSeq(Cur', l) = InsertAt(NodeSeq(Cur, l), k, last'.ret)
               /\ Elems(Cur', l) = InsertAt(Elems(Cur, l), k, last'.v)
      ]_vars

C8_Witness ==
    /\ last.op = "InsertAfter"
    /\ last.pos \in Nodes
    /\ Elems(Cur, last.l) = <<1, 2, 3>>
    /\ last.v = 2
    /\ NodeSeq(Cur, last.l)[2] = last.ret
    /\ NodeSeq(Cur, last.l)[1] = last.pos

\* C9: EraseAfter(pos) deallocates exactly the successor of pos, decreases
\* GetSize() by one, keeps the other elements in their order, and returns an
\* iterator to the node that followed the erased one (end() if none did); on
\* the list 1,2,3 EraseAfter(begin()) leaves 1,3 with size 2.
C9_EraseAfterRemovesSuccessor ==
    [][ last'.op = "EraseAfter" =>
            LET l == last'.l
                k == PosIndex(Cur, l, last'.pos)
                curr == Incr(Cur, last'.pos)
            IN /\ alloc' = alloc \ {curr}
               /\ curr \in alloc
               /\ GetSize(Cur', l) = GetSize(Cur, l) - 1
               /\ NodeSeq(Cur', l) = RemoveAt(NodeSeq(Cur, l), k + 1)
               /\ Elems(Cur', l) = RemoveAt(Elems(Cur, l), k + 1)
               /\ last'.ret = Incr(Cur, curr)
               /\ last'.ret = Incr(Cur', last'.pos)
               /\ (k + 1 = Len(NodeSeq(Cur, l))) <=> (last'.ret = end)
               /\ (Elems(Cur, l) = <<1, 2, 3>> /\ last'.pos = begin(Cur, l)) =>
                      (Elems(Cur', l) = <<1, 3>> /\ GetSize(Cur', l) = 2)
      ]_vars

C9_Witness ==
    /\ last.op = "EraseAfter"
    /\ last.pos = begin(Cur, last.l)
    /\ Elems(Cur, last.l) = <<1, 3>>
    /\ GetSize(Cur, last.l) = 2
    /\ last.ret = NodeSeq(Cur, last.l)[2]
    /\ Cardinality(alloc) = 2

\* C10: InsertAfter(before_begin(), v) and PushFront(v) lead from every list
\* state to the same state, with v in front of the old elements and the size
\* one larger, and the iterator InsertAfter returns equals begin().
C10_InsertAtFrontIsPushFront ==
    \A l \in live, v \in Values, a \in Free(Cur) :
        LET r == InsertAfter(Cur, l, before_begin(l), v, a)
            p == PushFront(Cur, l, v, a)
        IN /\ r.s = p
           /\ Elems(r.s, l) = <<v>> \o Elems(Cur, l)
           /\ Elems(p, l) = <<v>> \o Elems(Cur, l)
           /\ GetSize(r.s, l) = GetSize(Cur, l) + 1
           /\ GetSize(p, l) = GetSize(Cur, l) + 1
           /\ r.ret = begin(r.s, l)
           /\ Deref(r.s, r.ret) = v

C10_Witness ==
    /\ last.op = "InsertAfter"
    /\ last.pos = before_begin(last.l)
    /\ last.ret = begin(Cur, last.l)
    /\ Deref(Cur, begin(Cur, last.l)) = last.v
    /\ GetSize(Cur, last.l) = 3

\* C11: on every list with at least one element EraseAfter(before_begin())
\* removes exactly the first element and leads to the same state as PopFront().
C11_EraseAtFrontIsPopFront ==
    [](\A l \in live :
          begin(Cur, l) # end =>
              LET e == EraseAfter(Cur, l, before_begin(l))
                  p == PopFront(Cur, l)
              IN /\ e.s = p
                 /\ Elems(e.s, l) = Tail(Elems(Cur, l))
                 /\ Elems(p, l) = Tail(Elems(Cur, l))
                 /\ NodeSeq(e.s, l) = Tail(NodeSeq(Cur, l))
                 /\ GetSize(e.s, l) = GetSize(Cur, l) - 1
                 /\ GetSize(p, l) = GetSize(Cur, l) - 1
                 /\ e.s.alloc = alloc \ {begin(Cur, l)}
                 /\ e.ret = begin(p, l))

C11_Witness ==
    /\ last.op = "EraseAfter"
    /\ last.pos = before_begin(last.l)
    /\ last.ret = begin(Cur, last.l)
    /\ GetSize(Cur, last.l) = 2

\* C12: PopFront() on an empty list changes nothing (size stays 0, nothing is
\* deallocated); on a non-empty list it deallocates exactly the first node,
\* makes the former second node (or the end marker) the first and decreases
\* GetSize() by one.
C12_PopFrontGuarded ==
    [][ last'.op = "PopFront" =>
            LET l == last'.l
                first == begin(Cur, l)
            IN IF first = end
               THEN /\ Cur' = Cur
                    /\ GetSize(Cur', l) = 0
                    /\ begin(Cur', l) = end
               ELSE /\ first \in alloc
                    /\ alloc' = alloc \ {first}
                    /\ begin(Cur', l) = Incr(Cur, first)
                    /\ NodeSeq(Cur', l) = Tail(NodeSeq(Cur, l))
                    /\ Elems(Cur', l) = Tail(Elems(Cur, l))
                    /\ GetSize(Cur', l) = GetSize(Cur, l) - 1
                    /\ GetSize(Cur', l) >= 0
      ]_vars

\* PopFront was called on an empty list: every cell is in use, so none was released
C12_Witness ==
    /\ last.op = "PopFront"
    /\ begin(Cur, last.l) = end
    /\ GetSize(Cur, last.l) = 0
    /\ Cardinality(alloc) = MaxNodes

\* C13: Clear() on any list ends with GetSize() == 0, begin() == end(), a null
\* sentinel link, and exactly the nodes the list held deallocated, each once.
C13_ClearReleasesAll ==
    [](\A l \in live :
          LET c == Clear(Cur, l)
          IN /\ GetSize(c, l) = 0
             /\ begin(c, l) = end
             /\ c.next[Sentinel(l)] = NULL
             /\ c.alloc = alloc \ NodeSet(Cur, l)
             /\ ~c.dfree
             /\ \A o \in live \ {l} : NodeSeq(c, o) = NodeSeq(Cur, o))

C13_Witness ==
    /\ last.op = "Clear"
    /\ live = {last.l}
    /\ GetSize(Cur, last.l) = 0
    /\ next[Sentinel(last.l)] = NULL
    /\ alloc = {}

\* the elements of list l of the compared pair
CmpElems(l) ==
    LET ns == Walk(Cur, begin(Cur, l), 2 * MaxCmpLen)
    IN [i \in 1 .. Len(ns) |-> Deref(Cur, ns[i])]

\* a and b have the same length and the same elements
SeqEq(a, b) == Len(a) = Len(b) /\ \A i \in 1 .. Len(a) : a[i] = b[i]

\* a is a proper prefix of b, or at the first index where they differ a is smaller
LexLess(a, b) ==
    \E k \in 1 .. Len(b) :
        /\ k <= Len(a) + 1
        /\ \A i \in 1 .. (k - 1) : a[i] = b[i]
        /\ (k = Len(a) + 1 \/ a[k] < b[k])

\* C14: ==, !=, <, <=, >, >= return the lexicographic comparison of the two
\* element sequences: == same length and elements, < proper prefix or smaller
\* first difference, != not ==, <= not (B < A), > is B < A, >= not (A < B).
C14_LexicographicOperators ==
    last.op = "compare" =>
        LET a == CmpElems(last.l)
            b == CmpElems(last.o)
        IN /\ last.ret[1] = SeqEq(a, b)
           /\ last.ret[2] = ~SeqEq(a, b)
           /\ last.ret[3] = LexLess(a, b)
           /\ last.ret[4] = ~LexLess(b, a)
           /\ last.ret[5] = LexLess(b, a)
           /\ last.ret[6] = ~LexLess(a, b)
           /\ (a = <<>> /\ b # <<>>) => last.ret[3]
           /\ (a = <<1, 2>> /\ b = <<1, 2, 3>>) => last.ret[3]
           /\ (a = <<1, 2, 3>> /\ b = <<1, 2, 4>>) => last.ret[3]
           /\ (a = <<1, 2, 3>> /\ b = <<1, 2, 3>>) => last.ret[1]

C14_Witness ==
    /\ last.op = "compare"
    /\ CmpElems(last.l) = <<1, 2, 3>>
    /\ CmpElems(last.o) = <<1, 2, 4>>
    /\ last.ret = <<FALSE, TRUE, TRUE, TRUE, FALSE, FALSE>>

\* C15: L = L changes nothing: same nodes, elements and size, nothing
\* allocated or deallocated, every iterator into L still valid.
C15_SelfAssignmentNoOp ==
    [](\A l \in live :
          LET r == OperatorAssign(Cur, l, l, <<>>, Tmp2)
          IN /\ r = Cur
             /\ NodeSeq(r, l) = NodeSeq(Cur, l)
             /\ Elems(r, l) = Elems(Cur, l)
             /\ GetSize(r, l) = GetSize(Cur, l)
             /\ r.alloc = alloc
             /\ \A p \in {before_begin(l)} \cup NodeSet(Cur, l) :
                    p \in {Sentinel(x) : x \in r.live} \cup r.alloc)

C15_Witness ==
    /\ last.op = "operator="
    /\ last.l = last.o
    /\ last.exc = 0
    /\ GetSize(Cur, last.l) = 2
    /\ Len(NodeSeq(Cur, last.l)) = 2

\* C16: when a new Node throws while A = B builds the copy of B, A keeps the
\* nodes, elements and size it had, B is unchanged, and no node stays allocated.
C16_AssignStrongGuarantee ==
    (last.op = "operator=" /\ last.exc > 0) =>
        /\ NodeSeq(Cur, last.l) = NodeSeq(last.pre, last.l)
        /\ Elems(Cur, last.l) = Elems(last.pre, last.l)
        /\ GetSize(Cur, last.l) = GetSize(last.pre, last.l)
        /\ NodeSeq(Cur, last.o) = NodeSeq(last.pre, last.o)
        /\ Elems(Cur, last.o) = Elems(last.pre, last.o)
        /\ GetSize(Cur, last.o) = GetSize(last.pre, last.o)
        /\ alloc = last.pre.alloc
        /\ live = last.pre.live

\* the second new Node of A = B threw, after the first node of the copy was built
C16_Witness ==
    /\ last.op = "operator="
    /\ last.exc = 2
    /\ Len(NodeSeq(Cur, last.o)) = 2
    /\ Elems(Cur, last.l) = <<>>
    /\ Cardinality(alloc) = 2

\* C17: no delete is ever applied to a cell that is not allocated, and once
\* every list object is destroyed no node is allocated, whether the calls
\* returned or were left by an exception of new Node.
C17_NoLeakNoDoubleFree ==
    /\ ~dfree
    /\ live = {} => alloc = {}
    /\ \A t \in AllLists \ live : next[Sentinel(t)] = NULL

\* the third new Node of an initializer-list construction threw: two nodes were built and released
C17_Witness ==
    /\ last.op = "InitListConstructor"
    /\ last.exc = 3
    /\ live = {}
    /\ alloc = {}
    /\ ~dfree

\* C18: PushFront, PopFront, InsertAfter and EraseAfter deallocate at most the
\* successor of pos (none when inserting); every other node stays allocated
\* with its value, and with its successor unless it is the pos node; links of
\* other sentinels and sizes of other lists are unchanged.
C18_PositionalFrame ==
    [][ (last'.op \in {"PushFront", "PopFront", "InsertAfter", "EraseAfter"} /\ last'.exc = 0) =>
            LET pos == last'.pos
                gone == alloc \ alloc'
            IN /\ gone \subseteq {next[pos]}
               /\ last'.op \in {"PushFront", "InsertAfter"} => gone = {}
               /\ \A n \in alloc \ gone :
                    /\ ValidIter(Cur', n)
                    /\ Deref(Cur', n) = Deref(Cur, n)
                    /\ n # pos => Incr(Cur', n) = Incr(Cur, n)
               /\ live' = live
               /\ \A l \in live :
                    /\ ValidIter(Cur', before_begin(l))
                    /\ before_begin(l) # pos => begin(Cur', l) = begin(Cur, l)
                    /\ l # last'.l => GetSize(Cur', l) = GetSize(Cur, l)
      ]_vars

C18_Witness ==
    /\ last.op = "EraseAfter"
    /\ last.pos \in Nodes
    /\ last.ret = end
    /\ live = ListIds
    /\ \A l \in live : Len(NodeSeq(Cur, l)) = 1

\* C19: the initializer-list constructor yields the given values in the given
\* order with GetSize() equal to their number; from the empty list, and from
\* the default constructor, the list is empty with a null sentinel link.
C19_InitListOrder ==
    [](\A l \in ListIds \ live :
          /\ \A g \in Garbage, vals \in SeqsUpTo(Cardinality(Free(Cur))) :
              \A fresh \in FreshSeqs(Cur, Len(vals)) :
                  LET r == InitListConstructor(Cur, l, vals, g, fresh)
                  IN /\ l \in r.live
                     /\ Elems(r, l) = vals
                     /\ GetSize(r, l) = Len(vals)
                     /\ Len(NodeSeq(r, l)) = Len(vals)
                     /\ r.alloc = alloc \cup {fresh[i] : i \in 1 .. Len(vals)}
                     /\ vals = <<>> => begin(r, l) = NULL
          /\ LET d == DefaultConstructor(Cur, l)
             IN /\ l \in d.live
                /\ Elems(d, l) = <<>>
                /\ GetSize(d, l) = 0
                /\ begin(d, l) = NULL)

C19_Witness ==
    /\ last.op = "InitListConstructor"
    /\ last.exc = 0
    /\ Elems(Cur, last.l) = <<1, 2, 3>>
    /\ GetSize(Cur, last.l) = 3

\* C20: whatever value size_ holds when the copy constructor or the
\* initializer-list constructor starts, the new list's GetSize() is the number
\* of elements of the source; the value sits in current_list at the closing
\* brace, and destroying current_list deallocates nothing.
C20_GarbageSizeHarmless ==
    [](\A l \in ListIds \ live, g \in Garbage :
          /\ \A other \in live :
              \A fresh \in FreshSeqs(Cur, Len(NodeSeq(Cur, other))) :
                  LET b == CopyConstructorBody(Cur, l, other, g, fresh)
                      r == CopyConstructor(Cur, l, other, g, fresh)
                  IN /\ GetSize(r, l) = Len(Elems(Cur, other))
                     /\ Len(NodeSeq(r, l)) = Len(Elems(Cur, other))
                     /\ b.size[Tmp1] = g
                     /\ begin(b, Tmp1) = NULL
                     /\ r.alloc = b.alloc
                     /\ ~r.dfree
                     /\ r = CopyConstructor(Cur, l, other, 0, fresh)
          /\ \A vals \in SeqsUpTo(Cardinality(Free(Cur))) :
              \A fresh \in FreshSeqs(Cur, Len(vals)) :
                  LET b == InitListConstructorBody(Cur, l, vals, g, fresh)
                      r == InitListConstructor(Cur, l, vals, g, fresh)
                  IN /\ GetSize(r, l) = Len(vals)
                     /\ b.size[Tmp1] = g
                     /\ begin(b, Tmp1) = NULL
                     /\ r.alloc = b.alloc
                     /\ ~r.dfree
                     /\ r = InitListConstructor(Cur, l, vals, 0, fresh))

C20_Witness ==
    /\ last.op = "CopyConstructor"
    /\ last.exc = 0
    /\ GetSize(Cur, last.l) = 1
    /\ GetSize(Cur, last.o) = 1
    /\ size[Tmp1] = 0
    /\ Cardinality(alloc) = 2

====
